---- MODULE Spec2Model ----
(***************************************************************************)
(* guess-the-song: the playback service (SongService, songServices.ts) and *)
(* the in-game round controller (InGamePage, JoinRoom.tsx).                *)
(*                                                                         *)
(* Execution is single-threaded and event-driven.  Every action below is   *)
(* one task of the event loop: a call made by a handler together with the  *)
(* synchronous part of everything it calls, or one asynchronous            *)
(* continuation (a promise settling, a media event, a timer).              *)
(***************************************************************************)
EXTENDS Integers, Sequences, FiniteSets, TLC

(***************************************************************************)
(* Bounds of the exploration.                                              *)
(***************************************************************************)
MaxToken == 2       \* SpecSvc explores calls while playToken <= MaxToken
MaxPending == 2     \* asynchronous play operations in flight at once
TotalRounds == 2    \* the game's `rounds` setting
GuessTime == 2      \* the game's `guessTime` / guessTimeSec setting, seconds

(***************************************************************************)
(* The track catalogue.  Index 2 has no previewUrl; index 3 is out of      *)
(* range.  Indices are 0-based as in the code.                             *)
(***************************************************************************)
Playlist ==
  << [title |-> "A", artist |-> "x", previewUrl |-> TRUE],
     [title |-> "B", artist |-> "y", previewUrl |-> TRUE],
     [title |-> "C", artist |-> "z", previewUrl |-> FALSE] >>

NoSong == [title |-> "", artist |-> "", previewUrl |-> FALSE]
\* a track with a preview, one without, and an index outside the list
IdxInputs == {0, Len(Playlist) - 1, Len(Playlist)}
MultiInputs == { <<0, 1>>, <<2>> }
\* a list with a track without a source and more than three usable entries
LongList == << 0, 2, 1, 0, 1 >>

\* songs[i] of a JavaScript array: undefined (NoSong) outside the array
At(list, i) == IF i >= 0 /\ i < Len(list) THEN list[i + 1] ELSE NoSong
Has(list, i) == i >= 0 /\ i < Len(list)

VARIABLES
  svc,        \* the SongService singleton's fields
  ops,        \* play operations in flight: one record per suspended call
  lastNote,   \* the last track-change notification fired, and by whom
  st,         \* InGamePage: the React state (what the setters have set)
  view,       \* InGamePage: the state as last rendered (what closures see)
  ctl,        \* InGamePage: refs, timers, mount status, the game's settings
  net         \* socket: what was emitted, what the server may deliver

vars == << svc, ops, lastNote, st, view, ctl, net >>

Slots == 1..MaxPending
RoomKinds == {"playRoomSong", "playRoomQuickSnippet", "playRoomMulti"}
SingleKinds == {"playSong", "playQuickSnippet", "playMultiSong"}

\* volumes are in tenths: a new Audio element has volume 1.0 and is not
\* muted, the service starts with currentVolume 0.6
ElementVolume == 10
InitialVolume == 6
VolumeInputs == {3, InitialVolume}

NoAudio ==
  [id |-> 0, track |-> -1, state |-> "none", volume |-> 0, muted |-> FALSE]
NewAudio(id, track) ==
  [id |-> id, track |-> track, state |-> "loaded", volume |-> ElementVolume,
   muted |-> FALSE]
NewMulti(track) ==
  [track |-> track, state |-> "loaded", volume |-> ElementVolume,
   muted |-> FALSE]

\* audio.volume = this.currentVolume; audio.muted = this.isMuted
Tuned(a, s) == [a EXCEPT !.volume = s.currentVolume, !.muted = s.isMuted]

\* audio.volume = this.currentVolume, on an element left unmuted
Loud(a, s) == [a EXCEPT !.volume = s.currentVolume]

\* a suspended call: its method, where it waits (pc), its myToken (tok), its
\* arguments (idx, list), the Audio element it created (h), its loop index
\* (i), whether newer calls were made since (supR, supS), and what its
\* caller does when it returns (cont, arg)
FreeOp ==
  [kind |-> "free", pc |-> "free", tok |-> 0, idx |-> 0, list |-> << >>,
   h |-> 0, i |-> 0, supR |-> FALSE, supS |-> FALSE, cont |-> "none",
   arg |-> << >>]
NewOp(kind, pc, tok, idx, list, h, cont, arg) ==
  [kind |-> kind, pc |-> pc, tok |-> tok, idx |-> idx, list |-> list,
   h |-> h, i |-> 0, supR |-> FALSE, supS |-> FALSE, cont |-> cont,
   arg |-> arg]
NoNote == [kind |-> "none", supR |-> FALSE, supS |-> FALSE, gone |-> FALSE]

HasFree(o) == \E s \in Slots : o[s].kind = "free"
FreeSlot(o) ==
  CHOOSE s \in Slots :
    o[s].kind = "free" /\ \A t \in Slots : o[t].kind = "free" => s <= t
\* the identity of a newly created Audio element: one no suspended call holds
FreshId(o) ==
  CHOOSE i \in 1..(MaxPending + 1) :
    /\ \A s \in Slots : o[s].h # i
    /\ \A j \in 1..(MaxPending + 1) : (\A s \in Slots : o[s].h # j) => i <= j

\* a new call of the family fam is made: every suspended call is now older
Issue(o, fam) ==
  [s \in Slots |->
     IF o[s].kind = "free" THEN o[s]
     ELSE [o[s] EXCEPT !.supR = @ \/ (fam = "room"),
                       !.supS = @ \/ (fam = "single")]]

(***************************************************************************)
(* SongService: synchronous methods as functions of the service record.    *)
(***************************************************************************)
SvcInit ==
  [playToken |-> 0, currentAudio |-> NoAudio, multiAudios |-> << >>,
   currentIndex |-> 0, cachedSongs |-> << >>, roomPlaylist |-> << >>,
   subscribed |-> FALSE, currentVolume |-> InitialVolume, isMuted |-> FALSE]

\* setVolume(volume)
SetVolume(s, volume) ==
  [s EXCEPT !.currentVolume = volume,
            !.currentAudio = IF @ = NoAudio THEN @
                             ELSE [@ EXCEPT !.volume = volume],
            !.multiAudios = [k \in DOMAIN @ |-> [@[k] EXCEPT !.volume = volume]]]

\* setMuted(muted)
SetMuted(s, muted) ==
  [s EXCEPT !.isMuted = muted,
            !.currentAudio = IF @ = NoAudio THEN @
                             ELSE [@ EXCEPT !.muted = muted],
            !.multiAudios = [k \in DOMAIN @ |-> [@[k] EXCEPT !.muted = muted]]]

StopMultiSong(s) == [s EXCEPT !.multiAudios = << >>]

\* stopSong that leaves the simultaneous playback alone
StopSongOnlyCurrent(s) == [s EXCEPT !.currentAudio = NoAudio]

StopSong(s) == StopMultiSong([s EXCEPT !.currentAudio = NoAudio])

ResetCache(s) ==
  [s EXCEPT !.cachedSongs = << >>, !.currentIndex = 0,
            !.playToken = @ + 1]

SetRoomPlaylist(s, playlist) ==
  [StopSong(s) EXCEPT !.roomPlaylist = playlist, !.currentIndex = 0,
                      !.playToken = @ + 1]

ClearRoomPlaylist(s) ==
  [StopSong(s) EXCEPT !.roomPlaylist = << >>, !.currentIndex = 0,
                      !.playToken = @ + 1]

GetRoomSong(s, i) == At(s.roomPlaylist, i)

\* .filter(previewUrl).slice(0, 3) of playMultiSong / playRoomMulti
\* slice that keeps every entry
FirstThreeAll(seq) == seq

FirstThree(seq) == SubSeq(seq, 1, IF Len(seq) < 3 THEN Len(seq) ELSE 3)
RECURSIVE UsableIdx(_, _)
UsableIdx(list, indices) ==
  IF indices = << >> THEN << >>
  ELSE IF At(list, Head(indices)).previewUrl
       THEN << Head(indices) >> \o UsableIdx(list, Tail(indices))
       ELSE UsableIdx(list, Tail(indices))

\* new Audio(url) for each picked track
RECURSIVE MakeMulti(_, _)
MakeMulti(indices, s) ==
  IF indices = << >> THEN << >>
  ELSE << Loud(NewMulti(Head(indices)), s) >> \o MakeMulti(Tail(indices), s)

PlayAll(audios) == [k \in DOMAIN audios |-> [audios[k] EXCEPT !.state = "playing"]]

(***************************************************************************)
(* The play methods up to their first suspension.  Each yields the service *)
(* after the synchronous part (s), the suspended calls (o), whether the    *)
(* call returned without suspending (done) and whether it threw (threw).   *)
(* A call that suspends takes the lowest free slot.                        *)
(***************************************************************************)
Returned(s, o) == [s |-> s, o |-> o, done |-> TRUE, threw |-> FALSE]
Threw(s, o) == [s |-> s, o |-> o, done |-> TRUE, threw |-> TRUE]
Suspended(s, o, op) ==
  [s |-> s, o |-> [o EXCEPT ![FreeSlot(o)] = op], done |-> FALSE,
   threw |-> FALSE]

\* playSong after `await ensureGenre(genre)`
PlaySongBody(s, o, index) ==
  IF s.cachedSongs = << >> THEN Returned(s, o)
  ELSE
    LET s1 == [StopSong([s EXCEPT !.playToken = @ + 1])
                 EXCEPT !.currentIndex = index]
        id == FreshId(o)
    IN IF ~Has(s.cachedSongs, index) THEN Threw(s1, o)
       ELSE IF ~At(s.cachedSongs, index).previewUrl THEN Returned(s1, o)
       ELSE Suspended(
              [s1 EXCEPT !.currentAudio =
                           [Tuned(NewAudio(id, index), s) EXCEPT !.state = "playing"]],
              o,
              NewOp("playSong", "play", s1.playToken, index, << >>, id,
                    "none", << >>))

\* playSong: ensureGenre fetches when the cache is empty, and otherwise
\* resumes in the same task
CallPlaySong(s, o, index) ==
  IF s.cachedSongs = << >>
  THEN Suspended(s, Issue(o, "single"),
                 NewOp("playSong", "fetch", 0, index, << >>, 0, "none", << >>))
  ELSE PlaySongBody(s, Issue(o, "single"), index)

CallPlayQuickSnippet(s, o, index, cont) ==
  LET o1 == Issue(o, "single")
      s1 == [StopSong(s) EXCEPT !.currentIndex = index]
      id == FreshId(o)
  IN IF s.cachedSongs = << >> THEN Returned(s, o1)
     ELSE IF ~Has(s.cachedSongs, index) THEN Threw(s1, o1)
     ELSE IF ~At(s.cachedSongs, index).previewUrl THEN Returned(s1, o1)
     ELSE Suspended([s1 EXCEPT !.currentAudio = Loud(NewAudio(id, index), s),
                                !.isMuted = FALSE], o1,
                    NewOp("playQuickSnippet", "canplay", 0, index, << >>, id,
                          cont, << >>))

\* playMultiSong after `await ensureGenre(genre)`; songs are given by index
PlayMultiSongBody(s, o, songs) ==
  LET s1 == StopMultiSong(s)
      validSongs == FirstThree(UsableIdx(Playlist, songs))
  IN IF validSongs = << >> THEN Returned(s1, o)
     ELSE Returned([s1 EXCEPT
                      !.multiAudios = PlayAll(MakeMulti(validSongs, s)),
                      !.isMuted = FALSE],
                   o)

CallPlayMultiSong(s, o, songs, cont, arg) ==
  IF s.cachedSongs = << >>
  THEN Suspended(s, Issue(o, "single"),
                 NewOp("playMultiSong", "fetch", 0, 0, songs, 0, cont, arg))
  ELSE PlayMultiSongBody(s, Issue(o, "single"), songs)

CallPlayRoomSong(s, o, index, cont) ==
  LET o1 == Issue(o, "room")
      s1 == [StopSong([s EXCEPT !.playToken = @ + 1])
               EXCEPT !.currentIndex = index]
      id == FreshId(o)
  IN IF ~GetRoomSong(s, index).previewUrl THEN Returned(s, o1)
     ELSE Suspended(
            [s1 EXCEPT !.currentAudio =
                         [Tuned(NewAudio(id, index), s) EXCEPT !.state = "playing"]],
            o1,
            NewOp("playRoomSong", "play", s1.playToken, index, << >>, id,
                  cont, << >>))

CallPlayRoomQuickSnippet(s, o, index, cont) ==
  LET o1 == Issue(o, "room")
      s1 == StopSong([s EXCEPT !.playToken = @ + 1])
      id == FreshId(o)
  IN IF ~GetRoomSong(s, index).previewUrl THEN Returned(s, o1)
     ELSE Suspended([s1 EXCEPT !.currentAudio = Loud(NewAudio(id, index), s),
                                !.isMuted = FALSE], o1,
                    NewOp("playRoomQuickSnippet", "canplay", s1.playToken,
                          index, << >>, id, cont, << >>))

CallPlayRoomMulti(s, o, indices, cont, arg) ==
  LET o1 == Issue(o, "room")
      s1 == StopMultiSong([s EXCEPT !.playToken = @ + 1])
      picked == FirstThree(UsableIdx(s.roomPlaylist, indices))
      audios == MakeMulti(picked, s)
  IN IF picked = << >> THEN Returned(s1, o1)
     ELSE Suspended(
            [s1 EXCEPT !.multiAudios =
                         [audios EXCEPT ![1].state = "playing"],
                       !.isMuted = FALSE],
            o1,
            NewOp("playRoomMulti", "multi", s1.playToken, 0, indices, 0,
                  cont, arg))

(***************************************************************************)
(* Strings are sequences of atoms, so that Array.join is a real            *)
(* concatenation: "A, B" is << "A", ", ", "B" >> and "" is << >>.          *)
(***************************************************************************)
Str(x) == IF x = "" THEN << >> ELSE << x >>
TitleAt(list, i) == Str(At(list, i).title)      \* songs[i]?.title ?? ""
ArtistAt(list, i) == Str(At(list, i).artist)
RECURSIVE Titles(_, _)
Titles(list, indices) ==
  IF indices = << >> THEN << >>
  ELSE << TitleAt(list, Head(indices)) >> \o Titles(list, Tail(indices))
RECURSIVE Join(_)
Join(strs) ==
  IF strs = << >> THEN << >>
  ELSE IF Len(strs) = 1 THEN strs[1]
  ELSE strs[1] \o << ", " >> \o Join(Tail(strs))

(***************************************************************************)
(* InGamePage: the React state.  selectedIndex and currentSong are -1 for  *)
(* null.  roundStartTime is kept as started (non-null) and age, the whole  *)
(* seconds from roundStartTime to Date.now(): only their difference is     *)
(* ever used.                                                              *)
(***************************************************************************)
Roles == {"single", "host", "guest"}
Modes == {"Single Song", "Mixed Songs", "Guess the Artist", "Quick Guess"}
MaxAge == GuessTime + 1

StInit ==
  [currentRound |-> 1, timeLeft |-> GuessTime, started |-> FALSE, age |-> 0,
   isRoundActive |-> FALSE, isIntermission |-> FALSE, selectedIndex |-> -1,
   hasGuessedCorrectly |-> FALSE, currentSong |-> -1,
   hasSelectedCorrectly |-> FALSE, showCorrectAnswer |-> FALSE,
   options |-> << >>, correctAnswer |-> << >>, isTimeUp |-> FALSE,
   hasGuessedArtistCorrectly |-> FALSE, hasPlayedSnippet |-> FALSE,
   roomConfig |-> FALSE,
   player |-> [points |-> 0, previousPoints |-> 0, correctAnswers |-> 0]]

\* what the caller of a play method does once the awaited call returns
Resume(s, mode, op) ==
  CASE op.cont = "roundStartSong" ->
         [s EXCEPT !.currentSong = op.idx, !.options = << >>,
                   !.correctAnswer = IF mode = "Guess the Artist"
                                     THEN ArtistAt(Playlist, op.idx)
                                     ELSE TitleAt(Playlist, op.idx)]
    [] op.cont = "roundStartMixed" ->
         [s EXCEPT !.options = Titles(Playlist, op.arg),
                   !.correctAnswer = Join(Titles(Playlist, op.list))]
    [] op.cont = "snippet" -> [s EXCEPT !.hasPlayedSnippet = TRUE]
    [] OTHER -> s

(***************************************************************************)
(* Asynchronous continuations of the play methods.                         *)
(***************************************************************************)
\* onTrackChange?.(song, index): the notification, and the subscriber of
\* InGamePage, (song) => setCurrentSong(song)
NoteOf(op) ==
  [kind |-> op.kind, supR |-> op.supR, supS |-> op.supS,
   gone |-> ctl.mounted = "gone"]
OnTrackChange(s, op) ==
  IF svc.subscribed THEN [s EXCEPT !.currentSong = op.idx] ELSE s

\* a setter called with the page gone sets nothing
Set(s) == IF ctl.mounted = "gone" THEN st ELSE s

\* the call in slot returns to its caller
Finish(slot) ==
  /\ ops' = [ops EXCEPT ![slot] = FreeOp]
  /\ st' = Set(Resume(st, ctl.mode, ops[slot]))
  /\ UNCHANGED lastNote

\* fetchRandom answers a playSong / playMultiSong waiting in ensureGenre
FetchDone(slot, songs) ==
  /\ ops[slot].pc = "fetch"
  /\ LET s1 == [svc EXCEPT !.cachedSongs = songs]
         o1 == [ops EXCEPT ![slot] = FreeOp]
         r == IF ops[slot].kind = "playSong"
              THEN PlaySongBody(s1, o1, ops[slot].idx)
              ELSE PlayMultiSongBody(s1, o1, ops[slot].list)
     IN /\ r.s.playToken <= MaxToken
        /\ svc' = r.s
        /\ ops' = r.o
        /\ st' = IF r.done THEN Set(Resume(st, ctl.mode, ops[slot])) ELSE st
  /\ UNCHANGED << lastNote, view, ctl, net >>

\* the canplay event of the element the call created (handleCanPlay); a
\* released element (src = "", load()) fires no canplay any more
CanPlay(slot) ==
  /\ ops[slot].pc = "canplay"
  /\ svc.currentAudio.id = ops[slot].h
  /\ IF ops[slot].kind = "playRoomQuickSnippet"
        /\ ops[slot].tok # svc.playToken
     THEN Finish(slot) /\ UNCHANGED svc
     ELSE /\ svc' = [svc EXCEPT !.currentAudio.state = "playing"]
          /\ ops' = [ops EXCEPT ![slot].pc = "play"]
          /\ UNCHANGED << lastNote, st >>
  /\ UNCHANGED << view, ctl, net >>

\* the error event of an element still loading: resolve()
AudioError(slot) ==
  /\ ops[slot].pc = "canplay"
  /\ Finish(slot)
  /\ UNCHANGED << svc, view, ctl, net >>

\* whether a call whose play() resolved goes on to notify: playSong,
\* playRoomSong and playRoomQuickSnippet compare their token, playQuickSnippet
\* does not
StillCurrent(op, s) == op.kind = "playQuickSnippet" \/ op.tok = s.playToken

\* the promise of audio.play() settles: ok (resolved) or not (rejected)
PlaySettled(slot, ok) ==
  /\ ops[slot].pc = "play"
  /\ LET op == ops[slot]
         fires == ok /\ StillCurrent(op, svc)
         returns == op.kind \in {"playSong", "playRoomSong"} \/ ~fires
         s1 == IF fires THEN OnTrackChange(st, op) ELSE st
     IN /\ lastNote' = IF fires THEN NoteOf(op) ELSE lastNote
        /\ st' = Set(IF returns THEN Resume(s1, ctl.mode, op) ELSE s1)
        /\ ops' = IF returns THEN [ops EXCEPT ![slot] = FreeOp]
                  ELSE [ops EXCEPT ![slot].pc = "timer"]
  /\ UNCHANGED << svc, view, ctl, net >>

\* whether a snippet's stop timer stops the audio: playRoomQuickSnippet
\* compares its token, playQuickSnippet does not
TimerStops(op, s) == op.kind = "playQuickSnippet" \/ op.tok = s.playToken

\* the snippet's stop timer fires, `duration` seconds after play() resolved
SnippetTimer(slot) ==
  /\ ops[slot].pc = "timer"
  /\ svc' = IF TimerStops(ops[slot], svc) THEN StopSong(svc) ELSE svc
  /\ Finish(slot)
  /\ UNCHANGED << view, ctl, net >>

\* playRoomMulti: `await this.multiAudios[i].play()` settles; the loop goes on
MultiSettled(slot) ==
  /\ ops[slot].pc = "multi"
  /\ LET op == ops[slot]
         i == op.i + 1
     IN IF i < Len(svc.multiAudios) /\ op.tok = svc.playToken
        THEN /\ svc' = [svc EXCEPT !.multiAudios[i + 1].state = "playing"]
             /\ ops' = [ops EXCEPT ![slot].i = i]
             /\ UNCHANGED << lastNote, st >>
        ELSE Finish(slot) /\ UNCHANGED svc
  /\ UNCHANGED << view, ctl, net >>

Continuation ==
  \/ \E slot \in Slots, songs \in {Playlist, << >>} : FetchDone(slot, songs)
  \/ \E slot \in Slots : CanPlay(slot)
  \/ \E slot \in Slots : AudioError(slot)
  \/ \E slot \in Slots, ok \in BOOLEAN : PlaySettled(slot, ok)
  \/ \E slot \in Slots : SnippetTimer(slot)
  \/ \E slot \in Slots : MultiSettled(slot)

(***************************************************************************)
(* SpecSvc: the service driven directly through its public methods.        *)
(***************************************************************************)
CtlIdle ==
  [role |-> "single", mode |-> "Single Song", mounted |-> "no",
   isRoundStarting |-> FALSE, roomConfigRef |-> FALSE, tick |-> FALSE,
   lockTimer |-> FALSE, delays |-> {}, setup |-> "idle", setupRound |-> 0,
   inputs |-> 0]
NetInit ==
  [updateScore |-> 0, roundEnd |-> 0, echo |-> {}, seq |-> << >>,
   sinceStart |-> -1, hostStart |-> [r \in 1..TotalRounds |-> 0]]

InitSvc ==
  /\ svc = SvcInit
  /\ ops = [s \in Slots |-> FreeOp]
  /\ lastNote = NoNote
  /\ st = StInit
  /\ view = StInit
  /\ ctl = CtlIdle
  /\ net = NetInit

\* a call made from outside: its result r as the next state
Called(r) ==
  /\ r.s.playToken <= MaxToken
  /\ svc' = r.s
  /\ ops' = r.o
  /\ UNCHANGED << lastNote, st, view, ctl, net >>

CanCall == HasFree(ops)

PlaySong(index) == CanCall /\ Called(CallPlaySong(svc, ops, index))
PlayQuickSnippet(index) ==
  CanCall /\ Called(CallPlayQuickSnippet(svc, ops, index, "none"))
PlayMultiSong(songs) ==
  CanCall /\ Called(CallPlayMultiSong(svc, ops, songs, "none", << >>))
PlayRoomSong(index) ==
  CanCall /\ Called(CallPlayRoomSong(svc, ops, index, "none"))
PlayRoomQuickSnippet(index) ==
  CanCall /\ Called(CallPlayRoomQuickSnippet(svc, ops, index, "none"))
PlayRoomMulti(indices) ==
  CanCall /\ Called(CallPlayRoomMulti(svc, ops, indices, "none", << >>))
DoStopSong ==
  /\ svc' = StopSong(svc)
  /\ UNCHANGED << ops, lastNote, st, view, ctl, net >>
DoSetRoomPlaylist(playlist) ==
  /\ svc.playToken < MaxToken - 1
  /\ svc' = SetRoomPlaylist(svc, playlist)
  /\ UNCHANGED << ops, lastNote, st, view, ctl, net >>
DoResetCache ==
  /\ svc.playToken < MaxToken
  /\ svc' = ResetCache(svc)
  /\ UNCHANGED << ops, lastNote, st, view, ctl, net >>
DoSetVolume(volume) ==
  /\ svc' = SetVolume(svc, volume)
  /\ UNCHANGED << ops, lastNote, st, view, ctl, net >>
DoSetMuted(muted) ==
  /\ svc' = SetMuted(svc, muted)
  /\ UNCHANGED << ops, lastNote, st, view, ctl, net >>

NextSvc ==
  \/ \E index \in IdxInputs : PlaySong(index)
  \/ \E index \in IdxInputs : PlayQuickSnippet(index)
  \/ \E songs \in MultiInputs : PlayMultiSong(songs)
  \/ \E index \in IdxInputs : PlayRoomSong(index)
  \/ \E index \in IdxInputs : PlayRoomQuickSnippet(index)
  \/ \E indices \in MultiInputs : PlayRoomMulti(indices)
  \/ DoStopSong
  \/ \E playlist \in {Playlist, << >>} : DoSetRoomPlaylist(playlist)
  \/ DoResetCache
  \/ Continuation

SpecSvc == InitSvc /\ [][NextSvc]_vars

(***************************************************************************)
(* SpecVol: the service with its volume and mute controls; single tracks   *)
(* that exist and have a source, and simultaneous playback of a list that  *)
(* is longer than the three handles the service keeps.                     *)
(***************************************************************************)
NextVol ==
  \/ PlaySong(0)
  \/ PlayQuickSnippet(0)
  \/ PlayMultiSong(LongList)
  \/ PlayRoomSong(0)
  \/ PlayRoomQuickSnippet(0)
  \/ PlayRoomMulti(LongList)
  \/ DoStopSong
  \/ DoSetRoomPlaylist(Playlist)
  \/ \E volume \in VolumeInputs : DoSetVolume(volume)
  \/ \E muted \in BOOLEAN : DoSetMuted(muted)
  \/ Continuation

SpecVol == InitSvc /\ [][NextVol]_vars

(***************************************************************************)
(* InGamePage.  A handler created by a render reads the state of that      *)
(* render (view); its setters write the state the next render will show    *)
(* (st); an updater function, setX(prev => ...), reads st.                 *)
(***************************************************************************)
MaxTokenCtl == 4    \* SpecCtl explores calls while playToken <= MaxTokenCtl
MaxPendingCtl == 1  \* play operations the page has in flight at once

MaxInputs == 4      \* clicks and socket events one page receives

\* the page receives one more click or socket event
Input(c) == [c EXCEPT !.inputs = @ + 1]

\* whether the page may receive another click or socket event
CanInput == ctl.mounted = "yes" /\ ctl.inputs < MaxInputs

\* whether the page may start another play operation
CanStart(o) ==
  Cardinality({s \in Slots : o[s].kind # "free"}) < MaxPendingCtl

\* whether the page may start or schedule another play operation: none is in
\* flight and no delayed snippet is waiting for its timer
CanSchedule == CanStart(ops) /\ ctl.delays = {}

Min(a, b) == IF a < b THEN a ELSE b
Max(a, b) == IF a > b THEN a ELSE b

\* the points formula without its minPoints base
pointsAfterNoBase(roundTimeAsNumber, elapsedTime) ==
  LET timeRatioTimes900 == Max(0, 900 * (roundTimeAsNumber - elapsedTime))
  IN Max(timeRatioTimes900 \div roundTimeAsNumber, 100)

\* the points formula of calculatePoints: floor(100 + 900 * timeRatio),
\* at least 100, with timeRatio = max(0, (roundTime - elapsed) / roundTime)
pointsAfter(roundTimeAsNumber, elapsedTime) ==
  LET timeRatioTimes900 == Max(0, 900 * (roundTimeAsNumber - elapsedTime))
      points == 100 + (timeRatioTimes900 \div roundTimeAsNumber)
  IN Max(points, 100)

\* calculatePoints, on the render's roundStartTime; elapsedTime is v.age
calculatePoints(v) ==
  IF ~v.started THEN 500 ELSE pointsAfter(GuessTime, v.age)

\* addPointsToPlayer(points, correct): the totals come from the render's
\* player, the setter merges them into the current player
addPointsToPlayer(s, v, points, correct) ==
  [s EXCEPT !.player.points = v.player.points + points,
            !.player.correctAnswers =
               v.player.correctAnswers + (IF correct THEN 1 ELSE 0)]

\* socket.emit("update-score", ...), counted per round number
EmitUpdateScore(n) == [n EXCEPT !.updateScore = Min(@ + 1, 2)]

\* handleRoundEnd that forgets to mark the round as timed out
handleRoundEndUnmarked(s) ==
  [s EXCEPT !.isRoundActive = FALSE, !.isIntermission = TRUE]

\* handleRoundEnd, the setters only
handleRoundEnd(s) ==
  [s EXCEPT !.isTimeUp = TRUE, !.isRoundActive = FALSE,
            !.isIntermission = TRUE]

\* the state reset at the top of the round effect
RoundReset(s, v) ==
  [s EXCEPT !.player.previousPoints =
               IF v.currentRound > 1 THEN s.player.points ELSE @,
            !.isRoundActive = TRUE, !.timeLeft = GuessTime,
            !.started = TRUE, !.age = 0,
            !.hasGuessedCorrectly = FALSE, !.hasSelectedCorrectly = FALSE,
            !.showCorrectAnswer = FALSE, !.isTimeUp = FALSE,
            !.hasPlayedSnippet = FALSE,
            !.hasGuessedArtistCorrectly = FALSE]

\* onContinue that advances by one instead of adopting nextRound
ApplyContinueAdditive(s, nextRound, guessTimeSec) ==
  [s EXCEPT !.currentRound = @ + 1, !.timeLeft = guessTimeSec,
            !.isRoundActive = TRUE, !.isIntermission = FALSE,
            !.selectedIndex = -1, !.hasGuessedCorrectly = FALSE,
            !.hasSelectedCorrectly = FALSE, !.showCorrectAnswer = FALSE,
            !.isTimeUp = FALSE]

\* onContinue({ nextRound })
ApplyContinue(s, nextRound, guessTimeSec) ==
  [s EXCEPT !.currentRound = nextRound, !.timeLeft = guessTimeSec,
            !.isRoundActive = TRUE, !.isIntermission = FALSE,
            !.selectedIndex = -1, !.hasGuessedCorrectly = FALSE,
            !.hasSelectedCorrectly = FALSE, !.showCorrectAnswer = FALSE,
            !.isTimeUp = FALSE]

\* the local state update of handleContinueToNextRound
LocalAdvance(s) ==
  [s EXCEPT !.currentRound = @ + 1, !.timeLeft = GuessTime,
            !.isRoundActive = TRUE, !.isIntermission = FALSE,
            !.selectedIndex = -1]

\* the cleanup functions run when the page unmounts
Cleanup(c) ==
  [c EXCEPT !.mounted = "gone", !.isRoundStarting = FALSE, !.tick = FALSE]

\* socket.emit("round-end", ...), counted per round number
EmitRoundEnd(n) == [n EXCEPT !.roundEnd = Min(@ + 1, 3)]
\* the per-round counts start again when the round number changes
CountFor(n, oldRound, newRound) ==
  IF oldRound = newRound THEN n
  ELSE [n EXCEPT !.updateScore = 0, !.roundEnd = 0, !.sinceStart = -1]

(***************************************************************************)
(* Single-player round generation (startSinglePlayerRound).  The random    *)
(* picks are the choice: pick.idx the song of a Quick Guess round,         *)
(* pick.first whether the right option comes first.                        *)
(***************************************************************************)
Picks ==
  { [idx |-> 0, first |-> TRUE], [idx |-> Len(Playlist) - 1, first |-> FALSE] }
NoPick == [idx |-> 0, first |-> TRUE]

\* generateMultipleChoiceOptions(selectedSong, allSongs)
generateMultipleChoiceOptions(pick) ==
  IF pick.first
  THEN << TitleAt(Playlist, pick.idx), TitleAt(Playlist, 1) >>
  ELSE << TitleAt(Playlist, 1), TitleAt(Playlist, pick.idx) >>

\* getRandomSongsForGenre(3, genre): three songs of the shuffled cache
Chosen(pick) == IF pick.first THEN << 0, 1, 2 >> ELSE << 2, 0, 1 >>

\* generateMixedSongsOptions(chosen, allSongs)
generateMixedSongsOptions(pick) ==
  IF pick.first
  THEN << Join(Titles(Playlist, Chosen(pick))),
          Join(Titles(Playlist, << 1, 0, 2 >>)) >>
  ELSE << Join(Titles(Playlist, << 1, 0, 2 >>)),
          Join(Titles(Playlist, Chosen(pick))) >>

\* startSinglePlayerRound after ensureSongsLoaded, then the lock's timer.
\* w is the world so far: [st, svc, ops, ctl]; round is the render's
\* currentRound.
StartSinglePlayerRound(w, round, pick) ==
  LET done == [w.ctl EXCEPT !.setup = "idle", !.lockTimer = TRUE]
      next == (w.svc.currentIndex + 1) % Len(w.svc.cachedSongs)
  IN CASE w.ctl.mode \in {"Single Song", "Guess the Artist"} ->
            LET s1 == IF round = 1 THEN w.svc
                      ELSE [w.svc EXCEPT !.currentIndex = next]
                r == CallPlaySong(s1, w.ops, IF round = 1 THEN 0 ELSE next)
            IN [st |-> w.st, svc |-> r.s, ops |-> r.o, ctl |-> done]
       [] w.ctl.mode = "Quick Guess" ->
            [st |-> [w.st EXCEPT !.currentSong = pick.idx,
                                 !.options = generateMultipleChoiceOptions(pick),
                                 !.correctAnswer = TitleAt(Playlist, pick.idx)],
             svc |-> w.svc, ops |-> w.ops,
             ctl |-> [done EXCEPT !.delays = @ \cup {pick.idx}]]
       [] OTHER ->
            LET r == CallPlayMultiSong(w.svc, w.ops, Chosen(pick), "none", << >>)
            IN [st |-> [w.st EXCEPT !.options = generateMixedSongsOptions(pick),
                                    !.correctAnswer =
                                       Join(Titles(Playlist, Chosen(pick)))],
                svc |-> r.s, ops |-> r.o, ctl |-> done]

\* the body of the round effect: lock, stop, reset, then by role
RoundEffect(w, v, pick) ==
  LET w1 == [st |-> RoundReset(w.st, v), svc |-> StopSong(w.svc),
             ops |-> w.ops,
             ctl |-> [w.ctl EXCEPT !.isRoundStarting = TRUE]]
  IN IF w.ctl.role = "single"
     THEN IF w1.svc.cachedSongs = << >>
          THEN [w1 EXCEPT !.ctl.setup = "fetch", !.ctl.setupRound = v.currentRound]
          ELSE w1     \* resumes in the same task, after the other effects
     ELSE [w1 EXCEPT !.ctl.lockTimer = TRUE]

\* the countdown effect
CountdownEffect(w, v) ==
  IF ~v.isRoundActive \/ v.isIntermission
  THEN [w EXCEPT !.ctl.tick = FALSE]
  ELSE IF v.timeLeft <= 0
  THEN [w EXCEPT !.ctl.tick = FALSE,
                 !.svc = StopSong(@),
                 !.st = [handleRoundEnd(@) EXCEPT !.isRoundActive = FALSE]]
  ELSE [w EXCEPT !.ctl.tick = TRUE]

\* which effects of a render run: those whose dependencies changed
RoundEndDeps(v, old) ==
  v.isRoundActive # old.isRoundActive \/ v.timeLeft # old.timeLeft
RoundDeps(v, old) == v.currentRound # old.currentRound
CountdownDeps(v, old) ==
  \/ v.timeLeft # old.timeLeft
  \/ v.isRoundActive # old.isRoundActive
  \/ v.isIntermission # old.isIntermission
TimesOut(v, old) ==
  CountdownDeps(v, old) /\ v.isRoundActive /\ ~v.isIntermission
  /\ v.timeLeft <= 0

\* the effects of one render with a round effect that ignores the lock
EffectsUnlocked(w, v, old, first, pick) ==
  LET \* roomConfigRef.current = roomConfig
      w1 == [w EXCEPT !.ctl.roomConfigRef = v.roomConfig]
      \* the round-end effect
      w2 == IF (first \/ RoundEndDeps(v, old)) /\ v.timeLeft = 0
            THEN [w1 EXCEPT !.st.isRoundActive = FALSE] ELSE w1
      \* the round effect
      starts == first \/ RoundDeps(v, old)
      w3 == IF starts THEN RoundEffect(w2, v, pick) ELSE w2
      \* the countdown effect
      w4 == IF first \/ CountdownDeps(v, old) THEN CountdownEffect(w3, v)
            ELSE w3
  IN IF starts /\ w4.ctl.role = "single" /\ w4.ctl.setup # "fetch"
     THEN StartSinglePlayerRound(w4, v.currentRound, pick)
     ELSE w4

\* the effects of one render, in the order the component declares them;
\* first: the render is the mount
Effects(w, v, old, first, pick) ==
  LET \* roomConfigRef.current = roomConfig
      w1 == [w EXCEPT !.ctl.roomConfigRef = v.roomConfig]
      \* the round-end effect
      w2 == IF (first \/ RoundEndDeps(v, old)) /\ v.timeLeft = 0
            THEN [w1 EXCEPT !.st.isRoundActive = FALSE] ELSE w1
      \* the round effect
      starts == (first \/ RoundDeps(v, old)) /\ ~w2.ctl.isRoundStarting
      w3 == IF starts THEN RoundEffect(w2, v, pick) ELSE w2
      \* the countdown effect
      w4 == IF first \/ CountdownDeps(v, old) THEN CountdownEffect(w3, v)
            ELSE w3
  IN IF starts /\ w4.ctl.role = "single" /\ w4.ctl.setup # "fetch"
     THEN StartSinglePlayerRound(w4, v.currentRound, pick)
     ELSE w4

\* startMultiplayerHostRound: socket.emit("host-start-round", { code }),
\* counted for the round number the effect runs for
startMultiplayerHostRound(n, currentRound) ==
  [n EXCEPT !.hostStart[currentRound] = Min(@ + 1, 2)]

\* the round effect that announces the round whatever the role
RoleEmitsAny(n, v) == startMultiplayerHostRound(n, v.currentRound)

\* the round effect's emit, by role
RoleEmits(n, v) ==
  IF ctl.role = "host" THEN startMultiplayerHostRound(n, v.currentRound)
  ELSE n

\* socket.emit calls of the effects of one render
EffectEmits(n, v, old, first) ==
  LET n1 == IF (first \/ RoundEndDeps(v, old)) /\ v.timeLeft = 0
            THEN EmitRoundEnd(n) ELSE n
      n2 == IF (first \/ RoundDeps(v, old)) /\ ~ctl.isRoundStarting
            THEN RoleEmits(n1, v) ELSE n1
  IN IF (first /\ v.isRoundActive /\ ~v.isIntermission /\ v.timeLeft <= 0)
        \/ TimesOut(v, old)
     THEN EmitRoundEnd(n2) ELSE n2

World == [st |-> st, svc |-> svc, ops |-> ops, ctl |-> ctl]
Becomes(w) ==
  /\ st' = Set(w.st)
  /\ svc' = w.svc
  /\ ops' = w.ops
  /\ ctl' = w.ctl
Bounded(w) == w.svc.playToken <= MaxTokenCtl

\* the last three round advances: "local" (handleContinueToNextRound) or
\* "event" (continue-to-next-round delivered)
Advanced(n, how) ==
  [n EXCEPT !.seq = IF Len(@) < 3 THEN Append(@, how)
                    ELSE Append(Tail(@), how)]

(***************************************************************************)
(* SpecCtl: one InGamePage, from its mount to its unmount, with the        *)
(* service it drives.  The role and the game mode are fixed per behaviour. *)
(***************************************************************************)
InitCtl ==
  /\ svc = SvcInit
  /\ ops = [s \in Slots |-> FreeOp]
  /\ lastNote = NoNote
  /\ st = StInit
  /\ view = StInit
  /\ \E role \in Roles, mode \in Modes :
       ctl = [CtlIdle EXCEPT !.role = role, !.mode = mode]
  /\ net = NetInit

\* the first render and its effects: the socket effect, then the
\* subscription to track changes, then the round and countdown effects
Mount ==
  /\ ctl.mounted = "no"
  /\ LET s1 == ResetCache(ClearRoomPlaylist(StopSong(svc)))
         w0 == [st |-> st, svc |-> [s1 EXCEPT !.subscribed = TRUE],
                ops |-> ops, ctl |-> [ctl EXCEPT !.mounted = "yes"]]
     IN Becomes(Effects(w0, st, st, TRUE, NoPick))
  /\ view' = st
  /\ net' = EffectEmits(net, st, st, TRUE)
  /\ UNCHANGED lastNote

\* whether this render's round effect draws random picks
NeedsPick ==
  /\ ctl.role = "single" /\ RoundDeps(st, view) /\ ~ctl.isRoundStarting
  /\ svc.cachedSongs # << >>
  /\ ctl.mode \in {"Quick Guess", "Mixed Songs"}

\* a re-render after state changed, with the effects whose deps changed
Render ==
  /\ ctl.mounted = "yes"
  /\ view # st
  /\ (ctl.role = "single" /\ RoundDeps(st, view)) => CanSchedule
  /\ \E pick \in IF NeedsPick THEN Picks ELSE {NoPick} :
       LET w == Effects(World, st, view, FALSE, pick)
       IN Bounded(w) /\ Becomes(w)
  /\ view' = st
  /\ net' = EffectEmits(net, st, view, FALSE)
  /\ UNCHANGED lastNote

\* fetchRandom of ensureSongsLoaded answers (ok) or fails; the round's
\* set-up goes on even when the page is gone
SetupFetchDone(ok) ==
  /\ ctl.setup = "fetch"
  /\ CanSchedule
  /\ IF ok
     THEN \E pick \in IF ctl.mode \in {"Quick Guess", "Mixed Songs"}
                      THEN Picks ELSE {NoPick} :
            LET w == StartSinglePlayerRound(
                       [World EXCEPT !.svc.cachedSongs = Playlist],
                       ctl.setupRound, pick)
            IN Bounded(w) /\ Becomes(w)
     ELSE /\ ctl' = [ctl EXCEPT !.setup = "idle"]
          /\ UNCHANGED << st, svc, ops >>
  /\ UNCHANGED << lastNote, view, net >>

\* one second passes
Older(s) == IF s.started /\ s.age < MaxAge THEN [s EXCEPT !.age = @ + 1] ELSE s

\* the whole seconds since the startTime of the round-start event that
\* started the current round; -1 when there was none or when that startTime
\* is still ahead of the local clock
SecondPassed(n) ==
  IF n.sinceStart >= 0 /\ n.sinceStart < MaxAge
  THEN [n EXCEPT !.sinceStart = @ + 1] ELSE n

\* the countdown's one-second timer: setTimeLeft(t => t - 1)
Tick ==
  /\ ctl.mounted = "yes"
  /\ ctl.tick
  /\ st' = [Older(st) EXCEPT !.timeLeft = @ - 1]
  /\ view' = Older(view)
  /\ ctl' = [ctl EXCEPT !.tick = FALSE]
  /\ net' = SecondPassed(net)
  /\ UNCHANGED << svc, ops, lastNote >>

\* the timer that releases the round-start lock
LockRelease ==
  /\ ctl.lockTimer
  /\ ctl' = [ctl EXCEPT !.lockTimer = FALSE, !.isRoundStarting = FALSE]
  /\ UNCHANGED << svc, ops, lastNote, st, view, net >>

\* the delayed start of a Quick Guess snippet
DelayFire(index) ==
  /\ index \in ctl.delays
  /\ CanStart(ops)
  /\ LET r == IF ctl.role = "single"
              THEN CallPlayQuickSnippet(svc, ops, index, "snippet")
              ELSE CallPlayRoomQuickSnippet(svc, ops, index, "snippet")
     IN /\ r.s.playToken <= MaxTokenCtl
        /\ svc' = r.s
        /\ ops' = r.o
        /\ st' = IF r.done /\ ~r.threw
                 THEN Set([st EXCEPT !.hasPlayedSnippet = TRUE]) ELSE st
  /\ ctl' = [ctl EXCEPT !.delays = @ \ {index}]
  /\ UNCHANGED << lastNote, view, net >>

(***************************************************************************)
(* The handlers the page hands to its child components.  The game          *)
(* component is rendered outside Intermission, the round score inside it.  *)
(***************************************************************************)
\* handleSelect(index): a click on option index of the rendered options
handleSelect(index) ==
  /\ CanInput
  /\ ctl.mode \in {"Mixed Songs", "Quick Guess"}
  /\ ~view.isIntermission
  /\ index \in 0..(Len(view.options) - 1)
  /\ view.selectedIndex = -1
  /\ LET s1 == [st EXCEPT !.selectedIndex = index]
         ends == [s1 EXCEPT !.showCorrectAnswer = TRUE,
                            !.isRoundActive = FALSE, !.isIntermission = TRUE]
     IN IF view.options[index + 1] = view.correctAnswer
        THEN /\ st' = [addPointsToPlayer(ends, view, calculatePoints(view), TRUE)
                         EXCEPT !.hasSelectedCorrectly = TRUE]
             /\ net' = EmitUpdateScore(net)
        ELSE /\ st' = [ends EXCEPT !.hasSelectedCorrectly = FALSE,
                                   !.isTimeUp = FALSE]
             /\ net' = net
  /\ svc' = StopSong(svc)
  /\ ctl' = Input(ctl)
  /\ UNCHANGED << ops, lastNote, view >>

handleSkip ==
  /\ CanInput
  /\ ~view.isIntermission
  /\ ~view.hasGuessedCorrectly
  /\ svc' = StopSong(svc)
  /\ st' = [st EXCEPT !.isRoundActive = FALSE, !.isIntermission = TRUE]
  /\ ctl' = Input(ctl)
  /\ UNCHANGED << ops, lastNote, view, net >>

\* handleCorrectGuess: the typed guess matched the rendered currentSong
handleCorrectGuess ==
  /\ CanInput
  /\ ctl.mode \in {"Single Song", "Guess the Artist"}
  /\ ~view.isIntermission
  /\ view.currentSong # -1
  /\ LET alreadyGuessed == IF ctl.mode = "Single Song"
                           THEN view.hasGuessedCorrectly
                           ELSE view.hasGuessedArtistCorrectly
         s1 == addPointsToPlayer(st, view, calculatePoints(view), TRUE)
         s2 == IF ctl.mode = "Single Song"
               THEN [s1 EXCEPT !.hasGuessedCorrectly = TRUE]
               ELSE [s1 EXCEPT !.hasGuessedArtistCorrectly = TRUE]
     IN /\ ~alreadyGuessed
        /\ st' = [s2 EXCEPT !.isRoundActive = FALSE, !.isIntermission = TRUE]
  /\ net' = EmitUpdateScore(net)
  /\ svc' = StopSong(svc)
  /\ ctl' = Input(ctl)
  /\ UNCHANGED << ops, lastNote, view >>

\* navigate("/end_game"): the page unmounts and its cleanups run
Unmount ==
  /\ ctl' = Cleanup(Input(ctl))
  /\ svc' = StopSong(svc)
  /\ st' = StInit
  /\ view' = StInit

\* handleContinueToNextRound emitting the current round as nextRound
handleContinueToNextRoundSame ==
  /\ CanInput
  /\ view.isIntermission
  /\ IF view.currentRound < TotalRounds
     THEN /\ st.currentRound <= TotalRounds
          /\ st' = LocalAdvance(st)
          /\ net' = LET n1 == CountFor(Advanced(net, "local"), st.currentRound,
                                     st.currentRound + 1)
                    IN IF ctl.role = "host"
                       THEN [n1 EXCEPT !.echo = @ \cup {view.currentRound}]
                       ELSE n1
          /\ ctl' = Input(ctl)
          /\ UNCHANGED << svc, view >>
     ELSE /\ Unmount
          /\ net' = IF ctl.role = "host"
                    THEN [net EXCEPT !.echo = @ \cup {0}] ELSE net
  /\ UNCHANGED << ops, lastNote >>

\* handleContinueToNextRound: the continue button of the round score
handleContinueToNextRound ==
  /\ CanInput
  /\ view.isIntermission
  /\ IF view.currentRound < TotalRounds
     THEN /\ st.currentRound <= TotalRounds
          /\ st' = LocalAdvance(st)
          /\ net' = LET n1 == CountFor(Advanced(net, "local"), st.currentRound,
                                     st.currentRound + 1)
                    IN IF ctl.role = "host"
                       THEN [n1 EXCEPT !.echo = @ \cup {view.currentRound + 1}]
                       ELSE n1
          /\ ctl' = Input(ctl)
          /\ UNCHANGED << svc, view >>
     ELSE /\ Unmount
          /\ net' = IF ctl.role = "host"
                    THEN [net EXCEPT !.echo = @ \cup {0}] ELSE net
  /\ UNCHANGED << ops, lastNote >>

(***************************************************************************)
(* The socket handlers.  The server is the environment: it may deliver     *)
(* room-info and round-start at any time, continue-to-next-round and       *)
(* navigate-to-end-game to a host only as the answer to what the host      *)
(* emitted (net.echo; 0 stands for host-end-game), and to a guest at any   *)
(* time.                                                                   *)
(***************************************************************************)
Multiplayer == CanInput /\ ctl.role # "single"

onRoomInfo(playlist) ==
  /\ Multiplayer
  /\ svc.playToken < MaxTokenCtl
  /\ svc' = SetRoomPlaylist(svc, playlist)
  /\ st' = [st EXCEPT !.roomConfig = TRUE, !.timeLeft = GuessTime]
  /\ ctl' = Input(ctl)
  /\ UNCHANGED << ops, lastNote, view, net >>

\* seconds between evt.startTime and the local clock: on time, a whole round
\* late, and a startTime one second ahead of the local clock
ElapsedInputs == {0, GuessTime, -1}
ChoiceInputs == { <<0, 1>>, <<2, 3>> }
\* round-start events: every index on time, a playable one late as well and
\* with the other choices
RoundStartEvents ==
  { e \in [playlistIndex : IdxInputs, elapsedSec : ElapsedInputs,
           playlistIndices : MultiInputs, choiceIndices : ChoiceInputs] :
      /\ e.elapsedSec # 0 => (e.playlistIndex = 0
                              /\ e.playlistIndices = <<0, 1>>
                              /\ e.choiceIndices = <<0, 1>>)
      /\ e.choiceIndices # <<0, 1>> => e.playlistIndex = 0 }

\* the fields of the event the room's mode reads
Relevant(evt) ==
  IF ctl.mode = "Mixed Songs" THEN evt.playlistIndex = 0
  ELSE IF ctl.mode = "Quick Guess" THEN evt.playlistIndices = <<0, 1>>
  ELSE evt.playlistIndices = <<0, 1>> /\ evt.choiceIndices = <<0, 1>>

\* onRoundStart deriving the correct answer from the choices
AfterRoomPlayChoices(s, songs, evt) ==
  IF ctl.mode = "Mixed Songs"
  THEN [s EXCEPT !.options = Titles(songs, evt.choiceIndices),
                 !.correctAnswer = Join(Titles(songs, evt.choiceIndices))]
  ELSE [s EXCEPT !.currentSong = evt.playlistIndex, !.options = << >>,
                 !.correctAnswer = IF ctl.mode = "Guess the Artist"
                                   THEN ArtistAt(songs, evt.playlistIndex)
                                   ELSE TitleAt(songs, evt.playlistIndex)]

\* what onRoundStart sets after its play call returned
AfterRoomPlay(s, songs, evt) ==
  IF ctl.mode = "Mixed Songs"
  THEN [s EXCEPT !.options = Titles(songs, evt.choiceIndices),
                 !.correctAnswer = Join(Titles(songs, evt.playlistIndices))]
  ELSE [s EXCEPT !.currentSong = evt.playlistIndex, !.options = << >>,
                 !.correctAnswer = IF ctl.mode = "Guess the Artist"
                                   THEN ArtistAt(songs, evt.playlistIndex)
                                   ELSE TitleAt(songs, evt.playlistIndex)]

onRoundStart(evt) ==
  /\ Multiplayer
  /\ Relevant(evt)
  /\ ctl.roomConfigRef
  /\ CanSchedule
  /\ LET songs == svc.roomPlaylist
         i == evt.playlistIndex
         s1 == [st EXCEPT !.started = TRUE, !.age = evt.elapsedSec,
                          !.isRoundActive = TRUE,
                          !.timeLeft = Max(0, GuessTime - evt.elapsedSec),
                          !.hasGuessedCorrectly = FALSE,
                          !.hasSelectedCorrectly = FALSE,
                          !.showCorrectAnswer = FALSE, !.isTimeUp = FALSE,
                          !.hasGuessedArtistCorrectly = FALSE,
                          !.selectedIndex = -1, !.hasPlayedSnippet = FALSE]
     IN CASE ctl.mode \in {"Single Song", "Guess the Artist"} ->
               IF Has(songs, i)
               THEN LET r == CallPlayRoomSong(svc, ops, i, "roundStartSong")
                    IN /\ r.s.playToken <= MaxTokenCtl
                       /\ svc' = r.s
                       /\ ops' = r.o
                       /\ st' = IF r.done THEN AfterRoomPlay(s1, songs, evt)
                                ELSE s1
                       /\ ctl' = Input(ctl)
               ELSE st' = s1 /\ ctl' = Input(ctl) /\ UNCHANGED << svc, ops >>
          [] ctl.mode = "Quick Guess" ->
               /\ IF Has(songs, i)
                  THEN /\ st' = [s1 EXCEPT
                                   !.currentSong = i,
                                   !.options = Titles(songs, evt.choiceIndices),
                                   !.correctAnswer = TitleAt(songs, i)]
                       /\ ctl' = [Input(ctl) EXCEPT !.delays = @ \cup {i}]
                  ELSE st' = s1 /\ ctl' = Input(ctl)
               /\ UNCHANGED << svc, ops >>
          [] OTHER ->
               LET r == CallPlayRoomMulti(svc, ops, evt.playlistIndices,
                                          "roundStartMixed", evt.choiceIndices)
               IN /\ r.s.playToken <= MaxTokenCtl
                  /\ svc' = r.s
                  /\ ops' = r.o
                  /\ st' = IF r.done THEN AfterRoomPlay(s1, songs, evt) ELSE s1
                  /\ ctl' = Input(ctl)
  /\ net' = [net EXCEPT !.sinceStart = Max(-1, evt.elapsedSec)]
  /\ UNCHANGED << lastNote, view >>

Deliverable(n) == ctl.role = "guest" \/ n \in net.echo

onContinue(nextRound) ==
  /\ Multiplayer
  /\ Deliverable(nextRound)
  /\ st' = ApplyContinue(st, nextRound,
                         IF ctl.roomConfigRef THEN GuessTime ELSE 0)
  /\ net' = CountFor(Advanced(net, "event"), st.currentRound, nextRound)
  /\ ctl' = Input(ctl)
  /\ UNCHANGED << svc, ops, lastNote, view >>

onEnd ==
  /\ Multiplayer
  /\ Deliverable(0)
  /\ Unmount
  /\ UNCHANGED << ops, lastNote, net >>

\* the continuations of the play calls the page makes
PageContinuation ==
  \/ \E slot \in Slots : CanPlay(slot)
  \/ \E slot \in Slots : AudioError(slot)
  \/ \E slot \in Slots, ok \in BOOLEAN : PlaySettled(slot, ok)
  \/ \E slot \in Slots : SnippetTimer(slot)
  \/ \E slot \in Slots : MultiSettled(slot)

NextCtl ==
  \/ Mount
  \/ Render
  \/ \E ok \in BOOLEAN : SetupFetchDone(ok)
  \/ Tick
  \/ LockRelease
  \/ \E index \in IdxInputs : DelayFire(index)
  \/ \E index \in 0..1 : handleSelect(index)
  \/ handleSkip
  \/ handleCorrectGuess
  \/ handleContinueToNextRound
  \/ \E playlist \in {Playlist, << >>} : onRoomInfo(playlist)
  \/ \E evt \in RoundStartEvents : onRoundStart(evt)
  \/ \E nextRound \in 2..TotalRounds : onContinue(nextRound)
  \/ onEnd
  \/ PageContinuation

SpecCtl == InitCtl /\ [][NextCtl]_vars

\* SpecCtl with the scheduling the browser gives: a pending re-render is
\* performed, an armed timer fires, a settled promise or media event is
\* delivered, a song fetch is answered or fails.  Clicks and socket events are under no obligation.
SpecCtlFair ==
  /\ SpecCtl
  /\ WF_vars(Render)
  /\ WF_vars(Tick)
  /\ WF_vars(LockRelease)
  /\ WF_vars(PageContinuation)
  /\ WF_vars(\E ok \in BOOLEAN : SetupFetchDone(ok))

(***************************************************************************)
(* Claims about the playback service.                                      *)
(***************************************************************************)

\* C1: at most one playback generation is live: the service never holds a
\* live single handle (currentAudio non-null) together with live multi
\* handles (multiAudios non-empty).
C1_OneGeneration ==
  ~(svc.currentAudio # NoAudio /\ svc.multiAudios # << >>)

\* C2: a room-playlist operation never fires the track-change notification
\* once a newer room-playlist operation has been issued.
C2_RoomStaleSilent == ~(lastNote.kind \in RoomKinds /\ lastNote.supR)

\* C3: a single-player operation (playSong, playQuickSnippet, playMultiSong)
\* never fires the track-change notification once a newer single-player
\* operation has been issued.
C3_SingleStaleSilent == ~(lastNote.kind \in SingleKinds /\ lastNote.supS)

\* the handles of operations newer than the snippet in slot: a single handle
\* the snippet did not create, and any multi handles
NewerHandles(slot) ==
  \/ svc.currentAudio # NoAudio /\ svc.currentAudio.id # ops[slot].h
  \/ svc.multiAudios # << >>

\* C4: when a snippet's stop timer fires after a newer play operation was
\* issued, it does not stop or release the newer operation's handles.
C4_TimerGuarded ==
  [][\A slot \in Slots :
       (/\ ops[slot].pc = "timer"
        /\ ops'[slot].pc = "free"
        /\ ops[slot].supR \/ ops[slot].supS
        /\ NewerHandles(slot))
       => (/\ svc'.currentAudio = svc.currentAudio
           /\ svc'.multiAudios = svc.multiAudios)]_vars

(***************************************************************************)
(* Claims about the round controller, checked under SpecCtl.               *)
(***************************************************************************)
\* C5: lock-in is exactly-once per round: whatever answer attempts are made
\* within one round number, at most one update-score is emitted for it.
C5_LockInOnce == net.updateScore <= 1

\* C6: after the page unmounted, a playRoomSong that was in flight at the
\* unmount fires no track-change notification.
C6_UnmountSilences == ~(lastNote.gone /\ lastNote.kind = "playRoomSong")

\* C7: a guest's round number changes, and the guest's page ends, only in a
\* step that delivers continue-to-next-round or navigate-to-end-game.
C7_GuestEventSourced ==
  [][(/\ ctl.role = "guest"
      /\ ctl.mounted = "yes"
      /\ (st'.currentRound # st.currentRound \/ ctl'.mounted = "gone"))
     => ((\E n \in 2..TotalRounds : onContinue(n)) \/ onEnd)]_vars

\* C8: a delivery of continue-to-next-round {nextRound: n} leaves
\* currentRound = n, whatever the round number was before, and delivering it
\* once more changes nothing.
C8_AdvanceAbsolute ==
  [][\A n \in 2..TotalRounds :
       onContinue(n) =>
         /\ st'.currentRound = n
         /\ ApplyContinue(st', n, IF ctl.roomConfigRef THEN GuessTime ELSE 0)
              = st']_vars

\* the host advanced locally, then its broadcast was delivered twice
C8_Witness ==
  /\ ctl.role = "host"
  /\ net.seq = << "local", "event", "event" >>
  /\ st.currentRound = 2

\* the render in which the countdown is seen to have reached zero in an
\* active round
CountdownZero ==
  /\ Render
  /\ view.timeLeft > 0
  /\ st.timeLeft <= 0
  /\ st.isRoundActive
  /\ ~st.isIntermission

\* C9: when the countdown reaches zero in an active round, audio is stopped,
\* isTimeUp and isIntermission become true, isRoundActive false, and the
\* player's points and correctAnswers stay as they were.
C9_TimeoutEndsRound ==
  [][CountdownZero =>
       /\ svc'.currentAudio = NoAudio
       /\ svc'.multiAudios = << >>
       /\ st'.isTimeUp
       /\ st'.isIntermission
       /\ ~st'.isRoundActive
       /\ st'.player.points = st.player.points
       /\ st'.player.correctAnswers = st.player.correctAnswers]_vars

\* a round that timed out with nothing scored
C9_Witness ==
  /\ st.started
  /\ st.age = GuessTime
  /\ st.isTimeUp
  /\ st.isIntermission
  /\ ~st.isRoundActive
  /\ st.timeLeft = 0
  /\ st.player.correctAnswers = 0
  /\ svc.currentAudio = NoAudio

\* C10: a Quick Guess round that timed out with no option selected is in
\* Intermission with showCorrectAnswer true.
C10_TimeoutReveals ==
  (/\ ctl.mode = "Quick Guess"
   /\ st.options # << >>
   /\ st.selectedIndex = -1
   /\ st.isTimeUp
   /\ st.isIntermission)
    => st.showCorrectAnswer

\* C11: every active round eventually reaches Intermission (or the page
\* ends), and the page never stays with isRoundActive and isIntermission
\* both false.
C11_RoundEnds ==
  /\ (ctl.mounted = "yes" /\ st.isRoundActive)
       ~> (st.isIntermission \/ ctl.mounted = "gone")
  /\ (ctl.mounted = "yes" /\ ~st.isRoundActive /\ ~st.isIntermission)
       ~> (st.isRoundActive \/ st.isIntermission \/ ctl.mounted = "gone")

\* round durations the points formula is evaluated for
Durations == {GuessTime, 20, 30}

\* C12: for every elapsed time e in 0..D the points are within 100..1000,
\* do not increase with e, are 1000 at e = 0 and 100 at e = D (a fact of the
\* formula alone, evaluated before the page mounts); these are the points
\* calculatePoints gives e seconds into a round.
C12_PointsRange ==
  /\ ctl.mounted = "no" =>
       \A D \in Durations : \A e \in 0..D :
         /\ pointsAfter(D, e) \in 100..1000
         /\ e < D => pointsAfter(D, e + 1) <= pointsAfter(D, e)
         /\ pointsAfter(D, 0) = 1000
         /\ pointsAfter(D, D) = 100
  /\ (st.started /\ st.age \in 0..GuessTime) =>
       /\ calculatePoints(st) = pointsAfter(GuessTime, st.age)
       /\ calculatePoints(st) \in 100..1000
       /\ calculatePoints(Older(st)) <= calculatePoints(st)

\* a correct answer was scored by calculatePoints one second into a round
C12_Witness ==
  /\ st.player.correctAnswers = 1
  /\ st.player.points = pointsAfter(GuessTime, 1)
  /\ st.isIntermission

\* a correct answer is locked in on a fully rendered page, in a multiplayer
\* round that a round-start event started at most GuessTime seconds ago
CorrectLockIn ==
  /\ ctl.role # "single"
  /\ view = st
  /\ net.sinceStart \in 0..GuessTime
  /\ \/ handleCorrectGuess
     \/ \E index \in 0..1 :
          /\ handleSelect(index)
          /\ view.options[index + 1] = view.correctAnswer

\* C13: a correct lock-in e seconds after the round-start event's startTime
\* adds floor(100 + 900 * (D - e) / D) to the player's points, enters
\* Intermission and leaves previousPoints as it was.
C13_PointsForElapsed ==
  [][CorrectLockIn =>
       /\ st'.player.points
            = st.player.points + pointsAfter(GuessTime, net.sinceStart)
       /\ st'.isIntermission
       /\ st'.player.previousPoints = st.player.previousPoints]_vars

\* a guest's Mixed Songs page
GuestMixed ==
  ctl.role = "guest" /\ ctl.mode = "Mixed Songs" /\ ctl.mounted = "yes"

\* onRoundStart ran to its end within the step: playRoomMulti had nothing
\* to play and returned without suspending
MixedSetAtOnce(evt) ==
  /\ onRoundStart(evt)
  /\ FirstThree(UsableIdx(svc.roomPlaylist, evt.playlistIndices)) = << >>

\* the rest of onRoundStart ran after `await playRoomMulti(picks)`
MixedSetLater(slot) ==
  /\ ops[slot].cont = "roundStartMixed"
  /\ ops'[slot] = FreeOp

\* C14: on a guest's Mixed Songs round-start with playlistIndices P and
\* choiceIndices C, correctAnswer becomes the titles at P joined by ", " (and
\* the options the titles at C), and selecting an option whose label equals
\* the correct answer is judged correct: points are awarded and
\* hasSelectedCorrectly is set.
C14_MixedAnswer ==
  [][GuestMixed =>
       /\ \A evt \in RoundStartEvents :
            MixedSetAtOnce(evt) =>
              /\ st'.correctAnswer
                   = Join(Titles(svc.roomPlaylist, evt.playlistIndices))
              /\ st'.options = Titles(svc.roomPlaylist, evt.choiceIndices)
       /\ \A slot \in Slots :
            MixedSetLater(slot) =>
              /\ st'.correctAnswer = Join(Titles(Playlist, ops[slot].list))
              /\ st'.options = Titles(Playlist, ops[slot].arg)
       /\ \A index \in 0..1 :
            (handleSelect(index) /\ view.options[index + 1] = view.correctAnswer)
              => /\ st'.hasSelectedCorrectly
                 /\ st'.player.points
                      = view.player.points + calculatePoints(view)
                 /\ st'.player.points >= view.player.points + 100
                 /\ st'.player.correctAnswers
                      = view.player.correctAnswers + 1]_vars

\* a guest selected the option that equals the joined titles of the picks
C14_Witness ==
  /\ GuestMixed
  /\ st.correctAnswer = Join(Titles(Playlist, << 2 >>))
  /\ st.selectedIndex = 0
  /\ st.options[1] = st.correctAnswer
  /\ st.hasSelectedCorrectly
  /\ st.player.correctAnswers = 1

\* C15: stopSong is total and idempotent: called in any state of the service
\* it leaves currentAudio null and multiAudios empty, and a second call
\* changes nothing.
C15_StopIdempotent ==
  /\ [][DoStopSong =>
          /\ svc'.currentAudio = NoAudio
          /\ svc'.multiAudios = << >>
          /\ StopSong(svc') = svc']_vars
  /\ [](StopSong(StopSong(svc)) = StopSong(svc))

\* playback was stopped while a play call was still waiting
C15_Witness ==
  /\ svc.currentAudio = NoAudio
  /\ svc.multiAudios = << >>
  /\ \E slot \in Slots : ops[slot].pc \in {"play", "multi"}

\* an answer is locked in: a selected option, right or wrong, or a typed
\* guess that matched
LockIn == handleCorrectGuess \/ \E index \in 0..1 : handleSelect(index)

\* the answer being locked in is the correct one
LockInCorrect ==
  \/ handleCorrectGuess
  \/ \E index \in 0..1 :
       handleSelect(index) /\ view.options[index + 1] = view.correctAnswer

\* C16: every accepted lock-in, correct or not, emits update-score, stops all
\* audio and moves the page to Intermission; points and correctAnswers change
\* only when the answer is correct.
C16_LockInEmits ==
  [][LockIn =>
       /\ net'.updateScore = net.updateScore + 1 \/ net.updateScore = 2
       /\ svc'.currentAudio = NoAudio /\ svc'.multiAudios = << >>
       /\ st'.isIntermission /\ ~st'.isRoundActive
       /\ LockInCorrect \/ st'.player = st.player]_vars

\* a round begins on a page that knows its room: a round-start event is
\* handled, or a render runs the round effect, which takes the round-start
\* lock
RoundBegins ==
  \/ \E evt \in RoundStartEvents : onRoundStart(evt)
  \/ /\ Render /\ ~ctl.isRoundStarting /\ ctl'.isRoundStarting
     /\ ctl.role = "single" \/ ctl.roomConfigRef

\* the round-local state of a round that has just begun
FreshRound(s) ==
  /\ ~s.hasGuessedCorrectly /\ ~s.hasGuessedArtistCorrectly
  /\ ~s.hasSelectedCorrectly
  /\ s.selectedIndex = -1
  /\ ~s.showCorrectAnswer
  /\ ~s.isTimeUp
  /\ ~s.isIntermission
  /\ s.isRoundActive
  /\ s.started

\* C17: immediately after a round begins, through a round-start event or
\* through the round effect, the round-local state is reset: the answered
\* flags are false, selectedIndex is null, showCorrectAnswer, isTimeUp and
\* isIntermission are false, isRoundActive is true and roundStartTime is set.
C17_RoundStartsFresh == [][RoundBegins => FreshRound(st')]_vars

\* a round-start event is handled while the round that an earlier round-start
\* event started is Active on a fully rendered page
RoundStartWhileActive ==
  /\ st.isRoundActive /\ ~st.isIntermission
  /\ view = st
  /\ net.sinceStart >= 0
  /\ \E evt \in RoundStartEvents : onRoundStart(evt)

\* C18: a round-start event received while a round is already Active is a
\* no-op: it changes no state of the page and issues no playback operation.
C18_ActiveIgnoresRoundStart ==
  [][RoundStartWhileActive => st' = st /\ svc' = svc /\ ops' = ops]_vars

\* the body of the round effect has begun and is still waiting for its songs
SetupInProgress == ctl.setup = "fetch"

\* C19: round setups never overlap: a setup in progress holds the lock, and a
\* render that finds the lock held starts no second setup and issues no
\* playback operation.
C19_SetupsNeverOverlap ==
  /\ []((ctl.mounted = "yes" /\ SetupInProgress) => ctl.isRoundStarting)
  /\ [][(Render /\ ctl.isRoundStarting) =>
          /\ ctl'.setup = ctl.setup /\ ctl'.setupRound = ctl.setupRound
          /\ ctl'.lockTimer = ctl.lockTimer /\ ctl'.delays = ctl.delays
          /\ svc'.playToken = svc.playToken
          /\ ops' = ops]_vars

\* round 2 has been rendered while the setup of round 1 still waits
C19_Witness ==
  /\ ctl.mounted = "yes"
  /\ SetupInProgress /\ ctl.setupRound = 1
  /\ view.currentRound = 2 /\ view = st
  /\ ops = [slot \in Slots |-> FreeOp]

\* C20: once taken, the round-start lock is always eventually released,
\* whatever the outcome of the round setup, while the page stays mounted.
C20_LockReleased ==
  (ctl.mounted = "yes" /\ ctl.isRoundStarting) ~> ~ctl.isRoundStarting

\* C21: when the host continues from Intermission in round r, it emits
\* host-continue-round with nextRound = r + 1 and no host-end-game if r is
\* not the final round, and host-end-game and no host-continue-round if it
\* is; the value emitted is computed before the local state advances.
C21_HostEmitsAdvance ==
  [][(handleContinueToNextRound /\ ctl.role = "host" /\ st.isIntermission) =>
       IF st.currentRound < TotalRounds
       THEN /\ net'.echo = net.echo \cup {st.currentRound + 1}
            /\ st'.currentRound = st.currentRound + 1
       ELSE /\ net'.echo = net.echo \cup {0}
            /\ ctl'.mounted = "gone"]_vars

\* the host continued from the Intermission of round 1 and from that of the
\* final round
C21_Witness ==
  /\ ctl.role = "host"
  /\ net.echo = {0, 2}
  /\ net.seq = << "local" >>
  /\ ctl.mounted = "gone"

\* C22: during Intermission no countdown runs, so no timer tick decrements
\* timeLeft, and Intermission is left only through the local continue
\* action, an inbound continue-to-next-round or navigate-to-end-game.
C22_IntermissionQuiet ==
  /\ [][st.isIntermission => ~Tick]_vars
  /\ [][(st.isIntermission /\ ~st'.isIntermission) =>
          \/ handleContinueToNextRound
          \/ \E nextRound \in 2..TotalRounds : onContinue(nextRound)
          \/ onEnd]_vars

\* a round-start event that picks a song the room playlist does not have is
\* handled by a page that still shows the content of an earlier round
MissingPick(evt) ==
  /\ ctl.mode \in {"Single Song", "Guess the Artist", "Quick Guess"}
  /\ ~Has(svc.roomPlaylist, evt.playlistIndex)
  /\ st.correctAnswer # << >>
  /\ onRoundStart(evt)

\* C23: a round-start event whose indices do not refer to entries of the
\* playlist held by the page issues no playback for the missing track, and
\* the round falls back to no round content: currentSong, options and
\* correctAnswer do not keep the values of the previous round.
C23_MissingPickClears ==
  [][\A evt \in RoundStartEvents :
       MissingPick(evt) =>
         /\ svc'.playToken = svc.playToken /\ ops' = ops
         /\ ctl'.delays = ctl.delays
         /\ st'.currentSong = StInit.currentSong
         /\ st'.options = << >>
         /\ st'.correctAnswer = << >>]_vars

\* the suspended play calls
Busy(o) == {slot \in Slots : o[slot].kind # "free"}

\* no element of the service is playing or loading
Silent(s) == s.currentAudio = NoAudio /\ s.multiAudios = << >>

\* C24: a play operation asked to play a track that is missing or has no
\* usable source creates no audio handle, and the round degrades to silence:
\* after the call no audio of an earlier play operation is still playing.
C24_NothingToPlayIsSilent ==
  [][/\ \A index \in IdxInputs :
          /\ (PlayRoomSong(index) /\ ~GetRoomSong(svc, index).previewUrl)
               => Silent(svc') /\ Busy(ops') = Busy(ops)
          /\ (PlayRoomQuickSnippet(index)
               /\ ~GetRoomSong(svc, index).previewUrl)
               => Silent(svc') /\ Busy(ops') = Busy(ops)
          /\ (PlaySong(index) /\ svc.cachedSongs # << >>
               /\ ~At(svc.cachedSongs, index).previewUrl)
               => Silent(svc')
     /\ \A indices \in MultiInputs :
          (PlayRoomMulti(indices)
           /\ UsableIdx(svc.roomPlaylist, indices) = << >>)
            => Silent(svc')]_vars


\* The handles that are active: the single handle and the simultaneous ones.
ActiveAudios(s) ==
  (IF s.currentAudio = NoAudio THEN {} ELSE {s.currentAudio})
    \cup {s.multiAudios[k] : k \in DOMAIN s.multiAudios}

\* C25: the volume and the mute flag given to setVolume and setMuted stay
\* in force until the next call of the same method: no other operation
\* changes what getCurrentVolume and getCurrentMutedState return, and every
\* active handle, single or simultaneous, already playing or created by a
\* later play operation, carries that volume and that mute flag.
C25_VolumeAndMuteStick ==
  /\ [](\A a \in ActiveAudios(svc) :
          a.volume = svc.currentVolume /\ a.muted = svc.isMuted)
  /\ [][(~ \E volume \in VolumeInputs : DoSetVolume(volume))
          => svc'.currentVolume = svc.currentVolume]_vars
  /\ [][(~ \E muted \in BOOLEAN : DoSetMuted(muted))
          => svc'.isMuted = svc.isMuted]_vars


\* the first n entries of indices whose track exists and has a source
RECURSIVE TakeUsable(_, _, _)
TakeUsable(list, indices, n) ==
  IF indices = << >> \/ n = 0 THEN << >>
  ELSE IF Has(list, Head(indices)) /\ list[Head(indices) + 1].previewUrl
       THEN << Head(indices) >> \o TakeUsable(list, Tail(indices), n - 1)
       ELSE TakeUsable(list, Tail(indices), n)
Tracks(audios) == [k \in DOMAIN audios |-> audios[k].track]
MultiCalls == MultiInputs \cup {LongList}

RoundRendered == Render /\ RoundDeps(st, view)

\* C27: previousPoints is 0 throughout round 1, it is set to the points the
\* player has when a round after round 1 begins, and nothing else, lock-in
\* included, changes it, so that points - previousPoints at Intermission is
\* what the round earned.
C27_PreviousPointsSnapshot ==
  /\ [](st.currentRound = 1 => st.player.previousPoints = 0)
  /\ [][(ctl'.mounted = "yes"
          /\ st'.player.previousPoints # st.player.previousPoints)
          => RoundRendered]_vars
  /\ [][(RoundRendered /\ st.currentRound > 1)
          => st'.player.previousPoints = st.player.points]_vars


ClampedRemaining(D, e) == Min(D, Max(0, D - e))

\* C29: whatever the time elapsed since the round's start timestamp, a
\* negative one and one beyond the round duration included, calculatePoints
\* gives floor(100 + 900 * ratio) with the ratio clamped to [0, 1], so
\* never more than 1000 and never less than 100.
C29_PointsClamped ==
  st.started =>
    /\ calculatePoints(st)
         = 100 + ((900 * ClampedRemaining(GuessTime, st.age)) \div GuessTime)
    /\ calculatePoints(st) \in 100..1000


\* C30: in every state of a mounted page, a round is never both active and
\* in Intermission.
C30_ActiveXorIntermission ==
  ctl.mounted = "yes" => ~(st.isRoundActive /\ st.isIntermission)


\* C31: a round number the host's page has changed to is never lost to the
\* round-start lock: while the page stays mounted in that round, the round
\* effect eventually runs for it and the host emits host-start-round for it.
C31_RoundChangeNotLost ==
  \A r \in 2..TotalRounds :
    (ctl.mounted = "yes" /\ ctl.role = "host" /\ st.currentRound = r)
      ~> \/ net.hostStart[r] >= 1
         \/ ctl.mounted # "yes"
         \/ st.currentRound # r


\* C32: in a round whose guess time has run out on the local countdown,
\* round-end is emitted exactly once, and round-end is never emitted while
\* timeLeft is above 0.
C32_RoundEndOnce ==
  /\ []((st.started /\ st.age >= GuessTime) => net.roundEnd <= 1)
  /\ [][net'.roundEnd > net.roundEnd => st.timeLeft <= 0]_vars
  /\ [][(Render /\ TimesOut(st, view)) => net'.roundEnd >= 1]_vars


\* some option's label equals the correct answer
Winnable(s) == \E k \in DOMAIN s.options : s.options[k] = s.correctAnswer
\* every index of the sequence is an index of the playlist
AllIn(list, indices) == \A k \in DOMAIN indices : Has(list, indices[k])

\* every pick is among the choices
Covers(choices, picks) ==
  \A k \in DOMAIN picks : \E c \in DOMAIN choices : choices[c] = picks[k]

\* C33: a multiple-choice round started from a well-formed round-start
\* event is winnable: once onRoundStart has set the round's options and
\* correct answer, for a Quick Guess event whose choiceIndices contain its
\* playlistIndex and for a Mixed Songs event whose playlistIndices and
\* choiceIndices are indices of the playlist and whose choices include the
\* picks, an option equals the answer.
C33_RoundIsWinnable ==
  [][ctl.mounted = "yes" =>
       /\ \A evt \in RoundStartEvents :
            (/\ ctl.mode = "Quick Guess"
             /\ onRoundStart(evt)
             /\ Has(svc.roomPlaylist, evt.playlistIndex)
             /\ AllIn(svc.roomPlaylist, evt.choiceIndices)
             /\ \E k \in DOMAIN evt.choiceIndices :
                  evt.choiceIndices[k] = evt.playlistIndex)
              => Winnable(st')
       /\ \A evt \in RoundStartEvents :
            (/\ ctl.mode = "Mixed Songs"
             /\ MixedSetAtOnce(evt)
             /\ evt.playlistIndices # << >>
             /\ AllIn(svc.roomPlaylist, evt.playlistIndices)
             /\ AllIn(svc.roomPlaylist, evt.choiceIndices)
             /\ Covers(evt.choiceIndices, evt.playlistIndices))
              => Winnable(st')
       /\ \A slot \in Slots :
            (/\ ctl.mode = "Mixed Songs"
             /\ MixedSetLater(slot)
             /\ AllIn(Playlist, ops[slot].list)
             /\ AllIn(Playlist, ops[slot].arg)
             /\ Covers(ops[slot].arg, ops[slot].list))
              => Winnable(st')]_vars


\* C34: timeLeft is always within 0..guessTime, also after a round-start
\* whose startTime differs from the local clock, and a countdown tick takes
\* exactly one off it and only in a round that is active and not in
\* Intermission.
C34_TimeLeftInRange ==
  /\ [](st.timeLeft \in 0..GuessTime)
  /\ [][Tick => /\ st'.timeLeft = st.timeLeft - 1
                 /\ st.isRoundActive /\ ~st.isIntermission]_vars

====
